---- MODULE Spec2Model ----
(***************************************************************************)
(* State-machine model of the A2A JSON-RPC server (src/src/server) and of  *)
(* the agent graph it drives (src/src/agent/graph.py, agent/state.py).     *)
(*                                                                         *)
(* Python's Optional[X] is modelled as a sequence of length at most one:   *)
(* None is <<>> and a present value x is <<x>>.                            *)
(***************************************************************************)
EXTENDS Integers, Sequences, FiniteSets, TLC

\* ------------------------------------------------------------------ bounds
MaxClock == 4
MaxCalls == 5
MaxRunning == 3

\* ------------------------------------------------------------------ inputs
SessionIds == {"s1", "s2"}
TaskIds == {"t1", "t2"}

None == <<>>
Some(x) == <<x>>

RpcIds == {Some("r1")}

UserText == "Convert 100 USD to EUR"

\* message.parts of a TaskSendParams: a text Part, a message without any
\* text Part, and a text-typed Part whose text field is null
MessageInputs ==
    { << [type |-> "data", text |-> None], [type |-> "text", text |-> Some(UserText)] >>,
      << [type |-> "data", text |-> None] >>,
      << [type |-> "text", text |-> None] >> }

\* the (sessionId, id) pairs that tasks/send and tasks/sendSubscribe name,
\* and those that tasks/get and tasks/cancel name
SendTargets == { <<"s1", "t1">>, <<"s2", "t1">> }
QueryTargets == SendTargets \cup { <<"s1", "t2">> }

\* the methods whose params are drawn invalid
InvalidParamsMethods == {"tasks/send", "tasks/get"}

UnknownMethods == {"tasks/list"}

\* --------------------------------------------------------- a2a_models.py
TaskStates == {"created", "working", "input-required", "completed", "failed", "canceled"}

MethodNotFound == 0 - 32601
InternalError == 0 - 32603

\* an Artifact that repeats its text Part and is numbered from one
Artifact_TwoParts(t, a) ==
    [parts |-> << [type |-> "text", text |-> t], [type |-> "text", text |-> t] >>,
     index |-> 1, append |-> a]

\* Artifact(parts=[Part(type="text", text=t)], index=0, append=a)
Artifact(t, a) ==
    [parts |-> << [type |-> "text", text |-> t] >>, index |-> 0, append |-> a]

\* TaskStatus(state=..., message=..., timestamp=...): state is a Literal of
\* the six lifecycle states, anything else fails validation (None here)
TaskStatus(state, message, timestamp) ==
    IF state \in TaskStates
    THEN Some([state |-> state, message |-> message, timestamp |-> timestamp])
    ELSE None

\* Task(id=..., status=..., artifacts=..., final=..., artifact=...): status
\* is a required field, a Task built without one fails validation (None)
Task(id, status, artifacts, final, artifact) ==
    IF status = None
    THEN None
    ELSE Some([id |-> id, status |-> status[1], artifacts |-> artifacts,
               history |-> <<>>, final |-> final, artifact |-> artifact])

\* --------------------------------------------------------- agent/state.py
ParamKeys == {"task_type", "amount", "from_currency", "to_currency", "location"}

EmptyParams == [k \in {} |-> ""]

Message(role, content) == [role |-> role, content |-> content]

AgentState(now) ==
    [messages |-> <<>>,
     parameters |-> EmptyParams,
     task_state |-> "created",
     last_updated |-> now,
     final_response |-> None,
     intermediate_responses |-> <<>>,
     error |-> None]

\* add_user_message that writes the history back from a stale copy
add_user_message_LostUpdate(st, content, now) ==
    [st EXCEPT !.messages = << Message("user", content) >>,
               !.last_updated = now]

add_user_message(st, content, now) ==
    [st EXCEPT !.messages = Append(@, Message("user", content)),
               !.last_updated = now]

add_assistant_message(st, content, now) ==
    [st EXCEPT !.messages = Append(@, Message("assistant", content)),
               !.last_updated = now]

add_intermediate_response(st, content, now) ==
    [st EXCEPT !.intermediate_responses = Append(@, content),
               !.last_updated = now]

set_final_response(st, content, now) ==
    [st EXCEPT !.final_response = Some(content),
               !.last_updated = now]

\* set_error with a lifecycle state outside the protocol's six
set_error_AsError(st, err, now) ==
    [st EXCEPT !.error = Some(err),
               !.task_state = "error",
               !.last_updated = now]

set_error(st, err, now) ==
    [st EXCEPT !.error = Some(err),
               !.task_state = "failed",
               !.last_updated = now]

\* index of the last message with the given role, 0 when there is none
LastIndexOfRole(msgs, role) ==
    LET idx == {i \in 1..Len(msgs) : msgs[i].role = role}
    IN IF idx = {} THEN 0 ELSE CHOOSE i \in idx : \A j \in idx : j <= i

get_last_user_message(st) ==
    LET i == LastIndexOfRole(st.messages, "user")
    IN IF i = 0 THEN None ELSE Some(st.messages[i].content)

get_last_assistant_message(st) ==
    LET i == LastIndexOfRole(st.messages, "assistant")
    IN IF i = 0 THEN None ELSE Some(st.messages[i].content)

\* Python truthiness of an Optional[str]: None and "" are falsy
Truthy(opt) == opt /= None /\ opt[1] /= ""


\* ------------------------------------------------------------------ state
VARIABLES
    sessions,      \* a2a_server.py: sessions, session id -> task id -> AgentState
    clock,         \* the time of the last write to the store; datetime.now() is later
    inflight,      \* requests suspended in the agent graph or in a stream
    resp,          \* the response the step just taken delivered, if it delivered one
    lastGet,       \* what the last successful tasks/get returned, kept until
                   \* a step of tasks/send, tasks/sendSubscribe or tasks/cancel
                   \* on the same task
    manager,       \* in_memory_manager.py: the InMemoryFakeAgentManager object
                   \* and the module's _message_queue
    calls          \* in_memory_manager.py: the process_message coroutines, each
                   \* with its position and its local variables

vars == <<sessions, clock, inflight, resp, lastGet, manager, calls>>

serverVars == <<sessions, clock, inflight, resp, lastGet>>

managerVars == <<manager, calls>>

\* ------------------------------------------------ in_memory_manager.py
\* The process_message calls, numbered in the order in which they start;
\* at most MaxRunning of them are between their start and their end at once.
CallIds == 1..MaxCalls

\* str(uuid.uuid4()): the ids made for call c are unlike all others
MessageId(c) == <<"message", c>>
ResponseId(c) == <<"response", c>>
TaskId(c) == <<"task", c>>

ConversationIds == {"c1"}

\* the parts of the messages of _message_queue (the second is a form)
QueueParts == << "Hello", "form", "I like cats", "And I like dogs" >>

QueueLen == Len(QueueParts)

\* Message(role, parts) with its metadata; metadata is None until it is set
UiMessage(role, parts, metadata) == [role |-> role, parts |-> parts, metadata |-> metadata]

\* the message a caller hands to process_message after sanitize_message:
\* metadata holds a message_id and, when conv is given, a conversation_id
IncomingMessage(c, conv) ==
    UiMessage("user", "text", Some([message_id |-> MessageId(c), conversation_id |-> conv]))

\* A list entry is a reference to a Message object: an incoming message,
\* which nothing changes after the call began, or the message at a position
\* of _message_queue, whose metadata every use of it sets anew.
ValueRef(message) == [message |-> Some(message), queue |-> 0]
QueueRef(k) == [message |-> None, queue |-> k]

Deref(mgr, ref) == IF ref.queue = 0 THEN ref.message[1] ELSE mgr.message_queue[ref.queue]

\* the n-th uuid that call c makes for an Event
EventId(c, n) == <<"event", c, n>>

\* Event(id, actor, content, timestamp); the timestamp, the wall clock's
\* reading, is left out
Event(id, actor, content) == [id |-> id, actor |-> actor, content |-> content]

UiTaskStatus(state, message) == [state |-> state, message |-> message]

UiTask(id, sessionId, status) ==
    [id |-> id, sessionId |-> sessionId, status |-> status, artifacts |-> None]

UiArtifact(name, parts) == [name |-> name, parts |-> parts]

\* __init__, and _message_queue as the module defines it
ManagerInit ==
    /\ manager = [conversations |-> <<>>, messages |-> <<>>, tasks |-> <<>>,
                  events |-> <<>>, pending_message_ids |-> <<>>,
                  next_message_idx |-> 0, agents |-> <<>>,
                  message_queue |-> [k \in 1..QueueLen |->
                                        UiMessage("agent", QueueParts[k], None)]]
    /\ calls = [c \in CallIds |->
                   [pc |-> "new", message |-> None, conversation |-> 0, task_id |-> <<>>]]

\* create_conversation
CreateConversation ==
    /\ Len(manager.conversations) < Cardinality(ConversationIds)
    /\ \E id \in ConversationIds :
          /\ \A j \in 1..Len(manager.conversations) :
                manager.conversations[j].conversation_id /= id
          /\ manager' = [manager EXCEPT !.conversations =
                Append(@, [conversation_id |-> id, is_active |-> TRUE, messages |-> <<>>])]
    /\ UNCHANGED calls
    /\ UNCHANGED serverVars

\* get_conversation: the position of the conversation in the list, 0 for None
get_conversation(mgr, conversation_id) ==
    IF conversation_id = None THEN 0
    ELSE LET found == {j \in 1..Len(mgr.conversations) :
                          mgr.conversations[j].conversation_id = conversation_id[1]}
         IN IF found = {} THEN 0 ELSE CHOOSE j \in found : \A x \in found : j <= x

\* add_task
add_task(mgr, task) == [mgr EXCEPT !.tasks = Append(@, task)]

\* update_task: the first task with the id is replaced
update_task(mgr, task) ==
    LET same == {j \in 1..Len(mgr.tasks) : mgr.tasks[j].id = task.id}
    IN IF same = {} THEN mgr
       ELSE [mgr EXCEPT !.tasks[CHOOSE j \in same : \A x \in same : j <= x] = task]

\* next_message without the wrap-around of its index
next_message_Unwrapped(mgr) ==
    [message |-> mgr.next_message_idx + 1,
     mgr |-> [mgr EXCEPT !.next_message_idx = @ + 1]]

\* next_message: the queue position of the message it returns (Python's
\* index plus one) and the manager after the call
next_message(mgr) ==
    [message |-> mgr.next_message_idx + 1,
     mgr |-> [mgr EXCEPT !.next_message_idx = (@ + 1) % QueueLen]]

\* pop(0) in the place of remove(x): the list without its first entry
Remove_Oldest(list, x) == Tail(list)

\* list.remove(x): the list without the first x
Remove(list, x) ==
    LET at == {j \in 1..Len(list) : list[j] = x}
        first == CHOOSE j \in at : \A y \in at : j <= y
    IN [j \in 1..(Len(list) - 1) |-> IF j < first THEN list[j] ELSE list[j + 1]]

\* process_message from its start to "await asyncio.sleep(...)"
ProcessMessageStart(c, conv) ==
    LET message == IncomingMessage(c, conv)
        conversation_id == message.metadata[1].conversation_id
        conversation == get_conversation(manager, conversation_id)
        m1 == [manager EXCEPT !.messages = Append(@, ValueRef(message)),
                              !.pending_message_ids = Append(@, message.metadata[1].message_id)]
        m2 == IF conversation /= 0
              THEN [m1 EXCEPT !.conversations[conversation].messages =
                                  Append(@, ValueRef(message))]
              ELSE m1
        m3 == [m2 EXCEPT !.events =
                  Append(@, Event(EventId(c, 1), "host", ValueRef(message)))]
        task_id == TaskId(c)
        m4 == IF m3.next_message_idx /= 0
              THEN add_task(m3, UiTask(task_id, conversation_id,
                                       UiTaskStatus("submitted", Some(ValueRef(message)))))
              ELSE m3
    IN /\ calls[c].pc = "new"
       /\ \A d \in CallIds : d < c => calls[d].pc /= "new"
       /\ Cardinality({d \in CallIds : calls[d].pc = "sleeping"}) < MaxRunning
       /\ manager' = m4
       /\ calls' = [calls EXCEPT ![c] = [pc |-> "sleeping", message |-> Some(message),
                                         conversation |-> conversation, task_id |-> task_id]]
       /\ UNCHANGED serverVars

\* process_message after "await asyncio.sleep(...)" to its end
ProcessMessageFinish(c) ==
    LET call == calls[c]
        message == call.message[1]
        nm == next_message(manager)
        response == nm.message
        m1 == [nm.mgr EXCEPT !.message_queue[response].metadata =
                  Some([message.metadata[1] EXCEPT !.message_id = ResponseId(c)])]
        m2 == IF call.conversation /= 0
              THEN [m1 EXCEPT !.conversations[call.conversation].messages =
                                  Append(@, QueueRef(response))]
              ELSE m1
        m3 == [m2 EXCEPT !.events =
                  Append(@, Event(EventId(c, 2), "host", QueueRef(response)))]
        pending == \E j \in 1..Len(m3.pending_message_ids) :
                      m3.pending_message_ids[j] = message.metadata[1].message_id
        m4 == [m3 EXCEPT !.pending_message_ids = Remove(@, message.metadata[1].message_id)]
        mine == {j \in 1..Len(m4.tasks) : m4.tasks[j].id = call.task_id}
        m5 == IF mine = {} THEN m4
              ELSE LET task == m4.tasks[CHOOSE j \in mine : \A x \in mine : j <= x]
                   IN update_task(m4,
                         [task EXCEPT !.status.state = "completed",
                                      !.artifacts = Some(<< UiArtifact("response",
                                                        m4.message_queue[response].parts) >>)])
    IN /\ call.pc = "sleeping"
       /\ IF pending
          THEN /\ manager' = m5
               /\ calls' = [calls EXCEPT ![c].pc = "done"]
          ELSE \* list.remove raises ValueError
               /\ manager' = m3
               /\ calls' = [calls EXCEPT ![c].pc = "raised"]
       /\ UNCHANGED serverVars

\* the conversation_id of the message of call c: the first message may have
\* none, the later ones name a conversation, created by then or not
ConversationInputs(c) ==
    (IF c = 1 THEN {None} ELSE {}) \cup {Some(id) : id \in ConversationIds}

NextManager ==
    \/ CreateConversation
    \/ \E c \in CallIds : \E conv \in ConversationInputs(c) : ProcessMessageStart(c, conv)
    \/ \E c \in CallIds : ProcessMessageFinish(c)

Slots == DOMAIN inflight

IdleSlot ==
    [kind |-> "idle", rid |-> None, sid |-> "", tid |-> "", pc |-> "", events |-> <<>>,
     found |-> "", yielded |-> "", logged |-> 0]

\* a server that accepts a request only while no other is suspended
FreeSlot_OneAtATime(i) ==
    /\ i = 1
    /\ \A j \in Slots : inflight[j].kind = "idle"

\* the lowest free slot takes the next suspended request
FreeSlot(i) ==
    /\ inflight[i].kind = "idle"
    /\ \A j \in Slots : j < i => inflight[j].kind /= "idle"

\* ------------------------------------------------------------- responses
\* JSONRPCResponse(jsonrpc="2.0", id, result).dict(exclude_none=True), 200
ResultResponse(method, rid, sid, tid, result) ==
    [method |-> method, rid |-> rid, sid |-> sid, tid |-> tid,
     kind |-> "result", http |-> 200, jsonrpc |-> "2.0", id |-> rid,
     result |-> Some(result), code |-> 0, data |-> "",
     events |-> <<>>, afterCancel |-> FALSE, prevGet |-> None,
     prevSend |-> None]

\* JSONRPCResponse(jsonrpc="2.0", id, error=JSONRPCError(code, message, data))
ErrorResponse(method, rid, sid, tid, http, code, data) ==
    [method |-> method, rid |-> rid, sid |-> sid, tid |-> tid,
     kind |-> "error", http |-> http, jsonrpc |-> "2.0", id |-> rid,
     result |-> None, code |-> code, data |-> data,
     events |-> <<>>, afterCancel |-> FALSE, prevGet |-> None,
     prevSend |-> None]

\* an exception left handle_jsonrpc: the client gets no JSON-RPC object
EscapedException(method, rid, data) ==
    [method |-> method, rid |-> rid, sid |-> "", tid |-> "",
     kind |-> "escaped", http |-> 500, jsonrpc |-> "", id |-> None,
     result |-> None, code |-> 0, data |-> data,
     events |-> <<>>, afterCancel |-> FALSE, prevGet |-> None,
     prevSend |-> None]

\* a closed EventSourceResponse: the events it carried; kind "stream" when
\* the generator returned, "stream-aborted" when an exception ended it
StreamResponse(rid, sid, tid, events, kind, why) ==
    [method |-> "tasks/sendSubscribe", rid |-> rid, sid |-> sid, tid |-> tid,
     kind |-> kind, http |-> 200, jsonrpc |-> "2.0", id |-> rid,
     result |-> None, code |-> 0, data |-> why,
     events |-> events, afterCancel |-> FALSE, prevGet |-> None,
     prevSend |-> None]

NoResponse == EscapedException("", None, "")

\* stands for the method of a request whose envelope did not decode
Undecodable == "<undecodable>"

\* ------------------------------------------------------- session store
HasSession(sess, s) == s \in DOMAIN sess
HasTask(sess, s, t) == s \in DOMAIN sess /\ t \in DOMAIN sess[s]

\* get_or_create_session
get_or_create_session(sess, s) ==
    IF s \notin DOMAIN sess THEN (s :> [t \in {} |-> AgentState(0)]) @@ sess ELSE sess

\* get_or_create_task_state that makes a new Task State on every call
get_or_create_task_state_Fresh(sess, s, t, now) ==
    LET withS == get_or_create_session(sess, s)
    IN IF t \notin DOMAIN withS[s]
       THEN [withS EXCEPT ![s] = (t :> AgentState(now)) @@ @]
       ELSE [withS EXCEPT ![s] = [@ EXCEPT ![t] = AgentState(now)]]

\* get_or_create_task_state: the store after the call
get_or_create_task_state(sess, s, t, now) ==
    LET withS == get_or_create_session(sess, s)
    IN IF t \notin DOMAIN withS[s]
       THEN [withS EXCEPT ![s] = (t :> AgentState(now)) @@ @]
       ELSE withS

PutTask(sess, s, t, st) == [sess EXCEPT ![s] = [@ EXCEPT ![t] = st]]

Init ==
    /\ sessions = [s \in {} |-> [t \in {} |-> AgentState(0)]]
    /\ clock = 0
    /\ inflight = [i \in {1} |-> IdleSlot]
    /\ resp = NoResponse
    /\ lastGet = None
    /\ ManagerInit

\* lastGet after a step of a mutating operation on task (s, t)
ForgetGet(s, t) ==
    IF lastGet /= None /\ lastGet[1].sid = s /\ lastGet[1].tid = t
    THEN None ELSE lastGet

\* ----------------------------------------------------- result shaping
\* the artifacts rule without its test of the lifecycle state
ShapeArtifacts_IgnoringState(st) ==
    IF Truthy(st.final_response)
    THEN Some(<< Artifact(st.final_response[1], None) >>)
    ELSE None

\* get_task / process_task: "If completed, add artifacts"
ShapeArtifacts(st) ==
    IF st.task_state = "completed" /\ Truthy(st.final_response)
    THEN Some(<< Artifact(st.final_response[1], None) >>)
    ELSE None

\* get_task / process_task: "If input required, add message to status"
ShapeMessage(st) ==
    IF st.task_state = "input-required" /\ Truthy(get_last_assistant_message(st))
    THEN get_last_assistant_message(st)
    ELSE None

\* --------------------------------------------------------------- handlers
\* get_agent_card
get_agent_card ==
    [name |-> "LangGraph A2A Agent", version |-> "1.0.0",
     capabilities |-> [streaming |-> TRUE, pushNotifications |-> FALSE,
                       stateTransitionHistory |-> FALSE],
     skills |-> <<"currency_conversion", "weather_information">>]

\* handle_jsonrpc, method agent/getCard
GetCard(rid) ==
    /\ resp' = ResultResponse("agent/getCard", rid, "", "", get_agent_card)
    /\ UNCHANGED <<sessions, clock, inflight, lastGet>>

\* get_task that finds the task id in whichever session holds it
get_task_AnySession(sess, s, t) ==
    LET holders == {x \in DOMAIN sess : t \in DOMAIN sess[x]}
        home == IF HasTask(sess, s, t) THEN s ELSE CHOOSE x \in holders : TRUE
    IN IF holders = {} THEN [ok |-> FALSE, err |-> "Task not found", task |-> None]
       ELSE LET st == sess[home][t]
                task == Task(t, TaskStatus(st.task_state, ShapeMessage(st), st.last_updated),
                             ShapeArtifacts(st), None, None)
            IN [ok |-> task /= None, err |-> "validation error", task |-> task]

\* get_task that answers for an absent task with a newly made Task State
get_task_Default(sess, s, t) ==
    LET st == IF HasTask(sess, s, t) THEN sess[s][t] ELSE AgentState(0)
        task == Task(t, TaskStatus(st.task_state, ShapeMessage(st), st.last_updated),
                     ShapeArtifacts(st), None, None)
    IN [ok |-> task /= None, err |-> "validation error", task |-> task]

\* get_task that leaves status.message out
get_task_WithoutMessage(sess, s, t) ==
    IF ~HasSession(sess, s) THEN [ok |-> FALSE, err |-> "Session not found", task |-> None]
    ELSE IF ~HasTask(sess, s, t) THEN [ok |-> FALSE, err |-> "Task not found", task |-> None]
    ELSE LET st == sess[s][t]
             task == Task(t, TaskStatus(st.task_state, None, st.last_updated),
                          ShapeArtifacts(st), None, None)
         IN [ok |-> task /= None, err |-> "validation error", task |-> task]

\* get_task: the Task it returns, or the detail of the HTTPException
get_task(sess, s, t) ==
    IF ~HasSession(sess, s) THEN [ok |-> FALSE, err |-> "Session not found", task |-> None]
    ELSE IF ~HasTask(sess, s, t) THEN [ok |-> FALSE, err |-> "Task not found", task |-> None]
    ELSE LET st == sess[s][t]
             task == Task(t, TaskStatus(st.task_state, ShapeMessage(st), st.last_updated),
                          ShapeArtifacts(st), None, None)
         IN [ok |-> task /= None, err |-> "validation error", task |-> task]

\* tasks/get that looks its session up through get_or_create_session
TasksGet_CreatingSession(rid, s, t) ==
    LET r == get_task(sessions, s, t)
    IN /\ resp' = IF r.ok
                  THEN ResultResponse("tasks/get", rid, s, t, r.task[1])
                  ELSE ErrorResponse("tasks/get", rid, s, t, 500, InternalError, r.err)
       /\ sessions' = get_or_create_session(sessions, s)
       /\ lastGet' = IF r.ok THEN Some([sid |-> s, tid |-> t, task |-> r.task[1]])
                     ELSE lastGet
       /\ UNCHANGED <<clock, inflight>>

\* handle_jsonrpc, method tasks/get.  afterCancel tells that the step before
\* this one was a successful tasks/cancel of (s, t); prevGet is what the last
\* tasks/get of (s, t) returned when no mutating operation on (s, t) and no
\* other tasks/get came since; prevSend is the Task that a tasks/send of
\* (s, t) returned in the step before this one.
TasksGet(rid, s, t) ==
    LET r == get_task(sessions, s, t)
        afterCancel == /\ resp.method = "tasks/cancel" /\ resp.kind = "result"
                       /\ resp.sid = s /\ resp.tid = t
        prevGet == IF lastGet /= None /\ lastGet[1].sid = s /\ lastGet[1].tid = t
                   THEN Some(lastGet[1].task) ELSE None
        prevSend == IF /\ resp.method = "tasks/send" /\ resp.kind = "result"
                       /\ resp.sid = s /\ resp.tid = t
                    THEN resp.result ELSE None
    IN /\ resp' = [(IF r.ok
                    THEN ResultResponse("tasks/get", rid, s, t, r.task[1])
                    ELSE ErrorResponse("tasks/get", rid, s, t, 500, InternalError, r.err))
                     EXCEPT !.afterCancel = afterCancel, !.prevGet = prevGet,
                            !.prevSend = prevSend]
       /\ lastGet' = IF r.ok THEN Some([sid |-> s, tid |-> t, task |-> r.task[1]])
                     ELSE lastGet
       /\ UNCHANGED <<sessions, clock, inflight>>

\* cancel_task that leaves a completed or failed task as it is
cancel_task_KeepingTerminal(sess, s, t, now) ==
    IF ~HasSession(sess, s) THEN [ok |-> FALSE, err |-> "Session not found", task |-> None, sess |-> sess]
    ELSE IF ~HasTask(sess, s, t) THEN [ok |-> FALSE, err |-> "Task not found", task |-> None, sess |-> sess]
    ELSE LET old == sess[s][t]
             st == IF old.task_state \in {"completed", "failed"} THEN old
                   ELSE [old EXCEPT !.task_state = "canceled", !.last_updated = now]
         IN [ok |-> TRUE, err |-> "",
             task |-> Task(t, TaskStatus("canceled", None, now), None, None, None),
             sess |-> PutTask(sess, s, t, st)]

\* cancel_task that cancels the task id in every session that has it
cancel_task_AnySession(sess, s, t, now) ==
    IF ~HasSession(sess, s) THEN [ok |-> FALSE, err |-> "Session not found", task |-> None, sess |-> sess]
    ELSE IF ~HasTask(sess, s, t) THEN [ok |-> FALSE, err |-> "Task not found", task |-> None, sess |-> sess]
    ELSE [ok |-> TRUE, err |-> "",
          task |-> Task(t, TaskStatus("canceled", None, now), None, None, None),
          sess |-> [x \in DOMAIN sess |->
                      [y \in DOMAIN sess[x] |->
                          IF y = t
                          THEN [sess[x][y] EXCEPT !.task_state = "canceled", !.last_updated = now]
                          ELSE sess[x][y]]]]

\* cancel_task that also discards what the task had produced
cancel_task_ClearingResults(sess, s, t, now) ==
    IF ~HasSession(sess, s) THEN [ok |-> FALSE, err |-> "Session not found", task |-> None, sess |-> sess]
    ELSE IF ~HasTask(sess, s, t) THEN [ok |-> FALSE, err |-> "Task not found", task |-> None, sess |-> sess]
    ELSE LET st == [sess[s][t] EXCEPT !.task_state = "canceled", !.last_updated = now,
                                      !.final_response = None, !.error = None,
                                      !.intermediate_responses = <<>>]
         IN [ok |-> TRUE, err |-> "",
             task |-> Task(t, TaskStatus("canceled", None, now), None, None, None),
             sess |-> PutTask(sess, s, t, st)]

\* cancel_task that deletes the canceled task from its session
cancel_task_Removing(sess, s, t, now) ==
    IF ~HasSession(sess, s) THEN [ok |-> FALSE, err |-> "Session not found", task |-> None, sess |-> sess]
    ELSE IF ~HasTask(sess, s, t) THEN [ok |-> FALSE, err |-> "Task not found", task |-> None, sess |-> sess]
    ELSE [ok |-> TRUE, err |-> "",
          task |-> Task(t, TaskStatus("canceled", None, now), None, None, None),
          sess |-> [sess EXCEPT ![s] = [y \in DOMAIN sess[s] \ {t} |-> sess[s][y]]]]

\* cancel_task that looks its session up through get_or_create_session
cancel_task_CreatingSession(sess, s, t, now) ==
    LET withS == get_or_create_session(sess, s)
    IN IF ~HasTask(withS, s, t)
       THEN [ok |-> FALSE, err |-> "Task not found", task |-> None, sess |-> withS]
       ELSE LET st == [withS[s][t] EXCEPT !.task_state = "canceled", !.last_updated = now]
            IN [ok |-> TRUE, err |-> "",
                task |-> Task(t, TaskStatus("canceled", None, now), None, None, None),
                sess |-> PutTask(withS, s, t, st)]

\* cancel_task: the store after the call and the Task it returns
cancel_task(sess, s, t, now) ==
    IF ~HasSession(sess, s) THEN [ok |-> FALSE, err |-> "Session not found", task |-> None, sess |-> sess]
    ELSE IF ~HasTask(sess, s, t) THEN [ok |-> FALSE, err |-> "Task not found", task |-> None, sess |-> sess]
    ELSE LET st == [sess[s][t] EXCEPT !.task_state = "canceled", !.last_updated = now]
         IN [ok |-> TRUE, err |-> "",
             task |-> Task(t, TaskStatus("canceled", None, now), None, None, None),
             sess |-> PutTask(sess, s, t, st)]

\* handle_jsonrpc, method tasks/cancel
TasksCancel(rid, s, t) ==
    LET exists == HasTask(sessions, s, t)
        now == IF exists THEN clock + 1 ELSE clock
        r == cancel_task(sessions, s, t, now)
    IN /\ exists => clock < MaxClock
       /\ clock' = now
       /\ sessions' = r.sess
       /\ resp' = IF r.ok
                  THEN ResultResponse("tasks/cancel", rid, s, t, r.task[1])
                  ELSE ErrorResponse("tasks/cancel", rid, s, t, 500, InternalError, r.err)
       /\ lastGet' = IF r.ok THEN ForgetGet(s, t) ELSE lastGet
       /\ UNCHANGED inflight

\* the final else branch answering as the except block does
MethodNotFoundReply_AsInternalError(rid, m) ==
    /\ resp' = ErrorResponse(m, rid, "", "", 500, InternalError, m)
    /\ UNCHANGED <<sessions, clock, inflight, lastGet>>

\* handle_jsonrpc, the final else branch: method not found
MethodNotFoundReply(rid, m) ==
    /\ resp' = ErrorResponse(m, rid, "", "", 404, MethodNotFound, m)
    /\ UNCHANGED <<sessions, clock, inflight, lastGet>>

\* handle_jsonrpc when request.json() or JSONRPCRequest(**data) raises: the
\* except block evaluates jsonrpc_request, which was never bound, so the
\* handler raises UnboundLocalError instead of returning a response
DecodeFailure ==
    /\ resp' = EscapedException(Undecodable, None, "UnboundLocalError")
    /\ UNCHANGED <<sessions, clock, inflight, lastGet>>

\* handle_jsonrpc when the envelope decodes and TaskSendParams(**params),
\* TaskQueryParams(**params) or TaskIdParams(**params) raises
InvalidParams(rid, m) ==
    /\ resp' = ErrorResponse(m, rid, "", "", 500, InternalError, "validation error")
    /\ UNCHANGED <<sessions, clock, inflight, lastGet>>


\* ------------------------------------------------------- agent/graph.py
\* What an LLM call (chain.invoke) can give a node: it raises, or its
\* response.content is not JSON, or is JSON that is not an object, or is a
\* JSON object.
Params(tt, keys) ==
    [k \in keys \cup {"task_type"} |->
        IF k = "task_type" THEN tt
        ELSE IF k = "amount" THEN "100"
        ELSE IF k = "from_currency" THEN "USD"
        ELSE IF k = "to_currency" THEN "EUR"
        ELSE "London"]

LLMObjects ==
    { EmptyParams,
      Params("currency_conversion", {"amount", "from_currency", "to_currency"}),
      Params("currency_conversion", {"amount"}),
      Params("weather_information", {"location"}),
      Params("weather_information", {}) }

LLMOutcomes ==
    { [kind |-> "raise", obj |-> EmptyParams],
      [kind |-> "badjson", obj |-> EmptyParams],
      [kind |-> "nondict", obj |-> EmptyParams] }
    \cup { [kind |-> "dict", obj |-> o] : o \in LLMObjects }

\* the outcomes drawn for parse_input's second, structured prompt
LLMRetryOutcomes ==
    { [kind |-> "raise", obj |-> EmptyParams],
      [kind |-> "badjson", obj |-> EmptyParams],
      [kind |-> "nondict", obj |-> EmptyParams],
      [kind |-> "dict", obj |-> Params("currency_conversion", {"amount", "from_currency", "to_currency"})] }

\* response.content of the LLM asked to phrase a question
LLMTexts == {"", "Which currencies?"}

\* what tool_executor.invoke gives execute_task: the tool's string (tools.py
\* convert_currency / get_weather), or an exception (also float(amount))
CurrencyResult == "Based on the current exchange rate, 100 USD is equivalent to 92.00 EUR."
WeatherResult == "Weather for London: Sunny"
ToolOutcomes == {"ok", "raise"}

\* dict.update: keys of d override
DictUpdate(params, d) == d @@ params

DictSet(params, k, v) == (k :> v) @@ params

\* a node's outcome: the Task State as the node left it, and whether the
\* node raised instead of returning
Returned(st) == [st |-> st, raised |-> FALSE]
Raised(st) == [st |-> st, raised |-> TRUE]

\* parse_input; llm1 and llm2 are the outcomes of its two LLM calls
parse_input(st, llm1, llm2, now) ==
    IF ~Truthy(get_last_user_message(st))
    THEN Returned(set_error(st, "No user message found", now))
    ELSE
      LET s1 == add_intermediate_response([st EXCEPT !.task_state = "working"],
                                          "Analyzing your request...", now)
      IN CASE llm1.kind = "raise" -> Raised(s1)
           [] llm1.kind = "dict" ->
                Returned([s1 EXCEPT !.parameters = DictUpdate(@, llm1.obj)])
           [] llm1.kind = "nondict" -> Raised(s1)
           [] llm1.kind = "badjson" ->
                LET s2 == add_intermediate_response(s1, "Analyzing your request further...", now)
                IN CASE llm2.kind = "raise" -> Raised(s2)
                     [] llm2.kind = "dict" ->
                          Returned([s2 EXCEPT !.parameters = DictUpdate(@, llm2.obj)])
                     [] llm2.kind = "nondict" -> Raised(s2)
                     [] llm2.kind = "badjson" ->
                          Returned(set_error(s2, "Failed to parse parameters from user input", now))

\* check_parameters: the name of the branch taken
check_parameters(st) ==
    LET p == st.parameters
        task_type == IF "task_type" \in DOMAIN p THEN p["task_type"] ELSE ""
    IN IF task_type = "" THEN "unknown_task"
       ELSE IF task_type = "currency_conversion"
            THEN IF {"amount", "from_currency", "to_currency"} \subseteq DOMAIN p
                 THEN "complete_parameters" ELSE "missing_parameters"
       ELSE IF task_type = "weather_information"
            THEN IF "location" \in DOMAIN p
                 THEN "complete_parameters" ELSE "missing_parameters"
       ELSE "unknown_task"

\* create_agent_graph: parse_input -> check_parameters -> one of three
\* nodes -> END
NextNode(st) ==
    CASE check_parameters(st) = "unknown_task" -> "handle_unknown_task"
      [] check_parameters(st) = "missing_parameters" -> "request_missing_parameters"
      [] check_parameters(st) = "complete_parameters" -> "execute_task"

\* handle_unknown_task
handle_unknown_task(st, llm, now) ==
    IF llm.kind = "raise" THEN Raised(st)
    ELSE
      LET tt == IF llm.kind = "dict" /\ "task_type" \in DOMAIN llm.obj
                THEN llm.obj["task_type"] ELSE "unknown"
          s1 == [st EXCEPT !.parameters = DictSet(@, "task_type", tt)]
      IN IF tt = "unknown"
         THEN Returned([add_assistant_message(s1,
                  "I can help with currency conversion or weather information. What would you like to know?",
                  now) EXCEPT !.task_state = "input-required"])
         ELSE Returned(s1)

\* request_missing_parameters; text is the content of the LLM's reply, or
\* the LLM call raises
request_missing_parameters(st, llmRaises, text, now) ==
    LET p == st.parameters
        task_type == IF "task_type" \in DOMAIN p THEN p["task_type"] ELSE ""
    IN IF task_type = "currency_conversion"
       THEN IF llmRaises THEN Raised(st)
            ELSE Returned([add_assistant_message(st, text, now)
                             EXCEPT !.task_state = "input-required"])
       ELSE IF task_type = "weather_information" /\ "location" \notin DOMAIN p
       THEN Returned([add_assistant_message(st,
                "Which location would you like to get weather information for?", now)
                EXCEPT !.task_state = "input-required"])
       ELSE Returned(st)

\* the try block of either branch of execute_task
RunTool(st, tool, progress, result, errmsg, now) ==
    IF tool = "ok"
    THEN LET s1 == add_intermediate_response(st, progress, now)
             s2 == add_assistant_message(s1, result, now)
             s3 == set_final_response(s2, result, now)
         IN Returned([s3 EXCEPT !.task_state = "completed"])
    ELSE Returned(set_error(st, errmsg, now))

\* execute_task
execute_task(st, tool, now) ==
    LET p == st.parameters
        task_type == IF "task_type" \in DOMAIN p THEN p["task_type"] ELSE ""
    IN IF task_type = "currency_conversion"
       THEN RunTool(st, IF "amount" \in DOMAIN p THEN tool ELSE "raise",
                    "Converting 100 USD to EUR...", CurrencyResult,
                    "Error executing currency conversion", now)
       ELSE IF task_type = "weather_information"
       THEN RunTool(st, tool, "Getting weather information for London...", WeatherResult,
                    "Error executing weather information", now)
       ELSE Returned(st)


\* ---------------------------------------------- tasks/send, tasks/sendSubscribe
\* next((part.text for part in params.message.parts if part.type == "text"), "")
FirstText(parts) ==
    LET idx == {i \in 1..Len(parts) : parts[i].type = "text"}
    IN IF idx = {} THEN Some("")
       ELSE parts[CHOOSE i \in idx : \A j \in idx : i <= j].text

\* found is the lifecycle state of the Task State that the request's call of
\* get_or_create_task_state returned; yielded is the lifecycle state of the
\* snapshot that the node last run for the request returned ("" while none
\* has run); logged is the length that the intermediate-response log of the
\* Task State had when the request was accepted
Suspend(i, kind, rid, s, t, pc, events, found, yielded, logged) ==
    inflight' = [inflight EXCEPT ![i] =
        [kind |-> kind, rid |-> rid, sid |-> s, tid |-> t, pc |-> pc, events |-> events,
         found |-> found, yielded |-> yielded, logged |-> logged]]

Release(i) == inflight' = [inflight EXCEPT ![i] = IdleSlot]

\* a stream event that does not echo the request's id
SseEvent_WithoutId(rid, task) == [jsonrpc |-> "2.0", id |-> None, result |-> task]

\* the event a stream yields: format_sse_event(JSONRPCResponse(jsonrpc, id,
\* result=Task(...)).dict(exclude_none=True))
SseEvent(rid, task) == [jsonrpc |-> "2.0", id |-> rid, result |-> task]

\* process_task up to "await agent_graph.ainvoke(state)"
TasksSend(i, rid, s, t, parts) ==
    LET now == clock + 1
        created == get_or_create_task_state(sessions, s, t, now)
        user_content == FirstText(parts)
    IN /\ FreeSlot(i)
       /\ clock < MaxClock
       /\ clock' = now
       /\ lastGet' = ForgetGet(s, t)
       /\ IF user_content = None
          THEN \* Message(role="user", content=None) fails validation
               /\ sessions' = created
               /\ resp' = ErrorResponse("tasks/send", rid, s, t, 500, InternalError,
                                        "validation error")
               /\ UNCHANGED inflight
          ELSE /\ sessions' = PutTask(created, s, t,
                                 add_user_message(created[s][t], user_content[1], now))
               /\ Suspend(i, "send", rid, s, t, "parse_input", <<>>, created[s][t].task_state, "",
                       Len(created[s][t].intermediate_responses))
               /\ resp' = NoResponse

\* the message of the first event of every stream
ProcessingMessage == "Processing your request..."

\* handle_jsonrpc, method tasks/sendSubscribe, and stream_task up to its
\* first yield.  The generator runs outside handle_jsonrpc's try block: an
\* exception in it ends the stream and is answered by no error response.
TasksSendSubscribe(i, rid, s, t, parts) ==
    LET now == clock + 1
        created == get_or_create_task_state(sessions, s, t, now)
        user_content == FirstText(parts)
        first == Task(t, TaskStatus("working", Some("Processing your request..."), now),
                      None, Some(FALSE), None)
    IN /\ FreeSlot(i)
       /\ clock < MaxClock
       /\ clock' = now
       /\ lastGet' = ForgetGet(s, t)
       /\ IF user_content = None
          THEN /\ sessions' = created
               /\ resp' = StreamResponse(rid, s, t, <<>>, "stream-aborted", "user message invalid")
               /\ UNCHANGED inflight
          ELSE /\ sessions' = PutTask(created, s, t,
                                 add_user_message(created[s][t], user_content[1], now))
               /\ Suspend(i, "stream", rid, s, t, "parse_input", << SseEvent(rid, first[1]) >>,
                       created[s][t].task_state, "",
                       Len(created[s][t].intermediate_responses))
               /\ resp' = NoResponse

\* the loop body putting its event in front of the events already emitted
IntermediateEvents_Prepending(r, st, now) ==
    IF st.intermediate_responses /= <<>>
    THEN LET latest_response == st.intermediate_responses[Len(st.intermediate_responses)]
             task == Task(r.tid, TaskStatus("working", Some(latest_response), now),
                          None, Some(FALSE), None)
         IN << SseEvent(r.rid, task[1]) >> \o r.events
    ELSE r.events

\* the body of "async for intermediate_state in agent_graph.astream(state)"
IntermediateEvents(r, st, now) ==
    IF st.intermediate_responses /= <<>>
    THEN LET latest_response == st.intermediate_responses[Len(st.intermediate_responses)]
             task == Task(r.tid, TaskStatus("working", Some(latest_response), now),
                          None, Some(FALSE), None)
         IN Append(r.events, SseEvent(r.rid, task[1]))
    ELSE r.events

\* one node of the graph has run for the request in slot i, leaving the
\* outcome out; ainvoke and astream go on to the node next
NodeDone(i, out, next) ==
    LET r == inflight[i]
        now == clock + 1
    IN /\ clock' = now
       /\ lastGet' = ForgetGet(r.sid, r.tid)
       /\ sessions' = PutTask(sessions, r.sid, r.tid, out.st)
       /\ IF out.raised
          THEN /\ Release(i)
               /\ resp' = IF r.kind = "send"
                          THEN ErrorResponse("tasks/send", r.rid, r.sid, r.tid, 500,
                                             InternalError, "adapter error")
                          ELSE StreamResponse(r.rid, r.sid, r.tid, r.events, "stream-aborted",
                                              "adapter error")
          ELSE /\ Suspend(i, r.kind, r.rid, r.sid, r.tid, next,
                          IF r.kind = "stream" THEN IntermediateEvents(r, out.st, now)
                          ELSE r.events,
                          r.found, out.st.task_state, r.logged)
               /\ resp' = NoResponse

Running(i, node) ==
    /\ inflight[i].kind \in {"send", "stream"}
    /\ inflight[i].pc = node
    /\ clock < MaxClock

ParseInput(i) ==
    /\ Running(i, "parse_input")
    /\ \E llm1 \in LLMOutcomes :
       \E llm2 \in (IF llm1.kind = "badjson" THEN LLMRetryOutcomes ELSE {llm1}) :
          LET out == parse_input(sessions[inflight[i].sid][inflight[i].tid],
                                 llm1, llm2, clock + 1)
          IN NodeDone(i, out, NextNode(out.st))

HandleUnknownTask(i) ==
    /\ Running(i, "handle_unknown_task")
    /\ \E llm \in LLMOutcomes :
          NodeDone(i, handle_unknown_task(sessions[inflight[i].sid][inflight[i].tid],
                                          llm, clock + 1), "END")

RequestMissingParameters(i) ==
    /\ Running(i, "request_missing_parameters")
    /\ \E llmRaises \in BOOLEAN :
       \E text \in (IF llmRaises THEN {""} ELSE LLMTexts) :
          NodeDone(i, request_missing_parameters(sessions[inflight[i].sid][inflight[i].tid],
                                                 llmRaises, text, clock + 1), "END")

ExecuteTask(i) ==
    /\ Running(i, "execute_task")
    /\ \E tool \in ToolOutcomes :
          NodeDone(i, execute_task(sessions[inflight[i].sid][inflight[i].tid],
                                   tool, clock + 1), "END")

\* process_task after "await agent_graph.ainvoke(state)" has returned
SendReturn(i) ==
    LET r == inflight[i]
        now == clock + 1
        result == sessions[r.sid][r.tid]
        task == Task(r.tid, TaskStatus(result.task_state, ShapeMessage(result), now),
                     ShapeArtifacts(result), None, None)
    IN /\ r.kind = "send" /\ r.pc = "END"
       /\ resp' = IF task /= None
                  THEN ResultResponse("tasks/send", r.rid, r.sid, r.tid, task[1])
                  ELSE ErrorResponse("tasks/send", r.rid, r.sid, r.tid, 500, InternalError,
                                     "validation error")
       /\ Release(i)
       /\ UNCHANGED <<sessions, clock, lastGet>>

\* the end of stream_task with a closing event that repeats the working
\* status of the events before it
StreamFinish_ClosingWorking(i) ==
    LET r == inflight[i]
        now == clock + 1
        final_state == sessions[r.sid][r.tid]
        artifact == IF final_state.task_state = "completed"
                       /\ Truthy(final_state.final_response)
                    THEN << Task(r.tid, None, None, None,
                                 Some(Artifact(final_state.final_response[1], Some(FALSE)))) >>
                    ELSE <<>>
        closing == Task(r.tid, TaskStatus("working", Some(ProcessingMessage), now),
                        None, Some(TRUE), None)
    IN /\ r.kind = "stream" /\ r.pc = "END"
       /\ resp' = IF artifact /= <<>> /\ artifact[1] = None
                  THEN \* the artifact Task is built without a status
                       StreamResponse(r.rid, r.sid, r.tid, r.events, "stream-aborted",
                                      "artifact event invalid")
                  ELSE IF closing = None
                  THEN StreamResponse(r.rid, r.sid, r.tid,
                           r.events \o [k \in 1..Len(artifact) |-> SseEvent(r.rid, artifact[k][1])],
                           "stream-aborted", "validation error")
                  ELSE StreamResponse(r.rid, r.sid, r.tid,
                           (r.events \o [k \in 1..Len(artifact) |-> SseEvent(r.rid, artifact[k][1])])
                              \o << SseEvent(r.rid, closing[1]) >>,
                           "stream", "")
       /\ Release(i)
       /\ UNCHANGED <<sessions, clock, lastGet>>

\* stream_task after the async for loop: "Get final state" to the end
StreamFinish(i) ==
    LET r == inflight[i]
        now == clock + 1
        final_state == sessions[r.sid][r.tid]
        artifact == IF final_state.task_state = "completed"
                       /\ Truthy(final_state.final_response)
                    THEN << Task(r.tid, None, None, None,
                                 Some(Artifact(final_state.final_response[1], Some(FALSE)))) >>
                    ELSE <<>>
        closing == Task(r.tid, TaskStatus(final_state.task_state, None, now),
                        None, Some(TRUE), None)
    IN /\ r.kind = "stream" /\ r.pc = "END"
       /\ resp' = IF artifact /= <<>> /\ artifact[1] = None
                  THEN \* the artifact Task is built without a status
                       StreamResponse(r.rid, r.sid, r.tid, r.events, "stream-aborted",
                                      "artifact event invalid")
                  ELSE IF closing = None
                  THEN StreamResponse(r.rid, r.sid, r.tid,
                           r.events \o [k \in 1..Len(artifact) |-> SseEvent(r.rid, artifact[k][1])],
                           "stream-aborted", "validation error")
                  ELSE StreamResponse(r.rid, r.sid, r.tid,
                           (r.events \o [k \in 1..Len(artifact) |-> SseEvent(r.rid, artifact[k][1])])
                              \o << SseEvent(r.rid, closing[1]) >>,
                           "stream", "")
       /\ Release(i)
       /\ UNCHANGED <<sessions, clock, lastGet>>

\* ------------------------------------------------------------ specification
Next ==
    \/ \E rid \in RpcIds : GetCard(rid)
          /\ UNCHANGED managerVars
    \/ \E rid \in RpcIds, k \in QueryTargets : TasksGet(rid, k[1], k[2])
          /\ UNCHANGED managerVars
    \/ \E rid \in RpcIds, k \in QueryTargets : TasksCancel(rid, k[1], k[2])
          /\ UNCHANGED managerVars
    \/ \E rid \in RpcIds, m \in UnknownMethods : MethodNotFoundReply(rid, m)
          /\ UNCHANGED managerVars
    \/ DecodeFailure
          /\ UNCHANGED managerVars
    \/ \E rid \in RpcIds, m \in InvalidParamsMethods : InvalidParams(rid, m)
          /\ UNCHANGED managerVars
    \/ \E i \in Slots, rid \in RpcIds, k \in SendTargets, parts \in MessageInputs :
          TasksSend(i, rid, k[1], k[2], parts)
          /\ UNCHANGED managerVars
    \/ \E i \in Slots, rid \in RpcIds, k \in SendTargets, parts \in MessageInputs :
          TasksSendSubscribe(i, rid, k[1], k[2], parts)
          /\ UNCHANGED managerVars
    \/ \E i \in Slots : ParseInput(i)
          /\ UNCHANGED managerVars
    \/ \E i \in Slots : HandleUnknownTask(i)
          /\ UNCHANGED managerVars
    \/ \E i \in Slots : RequestMissingParameters(i)
          /\ UNCHANGED managerVars
    \/ \E i \in Slots : ExecuteTask(i)
          /\ UNCHANGED managerVars
    \/ \E i \in Slots : SendReturn(i)
          /\ UNCHANGED managerVars
    \/ \E i \in Slots : StreamFinish(i)
          /\ UNCHANGED managerVars

Spec == Init /\ [][Next]_vars

\* the manager of the demo UI alone: the A2A server takes no step
SpecManager == Init /\ [][NextManager]_vars

\* ------------------------------------------- two requests handled at once
\* Two clients name the same (sessionId, id), absent at first, in tasks/send
\* and tasks/sendSubscribe requests; each sends its own text, and the server
\* has both requests suspended in the graph at once.  handle_jsonrpc runs on
\* one event loop: process_task and stream_task run from their start to
\* their first await or yield without interruption, and the requests
\* interleave between the nodes of the graph.
RaceRpcIds == {Some("r1"), Some("r2")}

RaceTarget == <<"s1", "t1">>

RaceText(rid) == IF rid = Some("r1") THEN UserText ELSE "What is the weather in London?"

RaceParts(rid) == << [type |-> "text", text |-> Some(RaceText(rid))] >>

InitRace ==
    /\ sessions = [s \in {} |-> [t \in {} |-> AgentState(0)]]
    /\ clock = 0
    /\ inflight = [i \in {1, 2} |-> IdleSlot]
    /\ resp = NoResponse
    /\ lastGet = None
    /\ ManagerInit

NextRace ==
    \/ \E i \in Slots, rid \in RaceRpcIds :
          TasksSend(i, rid, RaceTarget[1], RaceTarget[2], RaceParts(rid))
          /\ UNCHANGED managerVars
    \/ \E i \in Slots, rid \in RaceRpcIds :
          TasksSendSubscribe(i, rid, RaceTarget[1], RaceTarget[2], RaceParts(rid))
          /\ UNCHANGED managerVars
    \/ \E i \in Slots : ParseInput(i)
          /\ UNCHANGED managerVars
    \/ \E i \in Slots : HandleUnknownTask(i)
          /\ UNCHANGED managerVars
    \/ \E i \in Slots : RequestMissingParameters(i)
          /\ UNCHANGED managerVars
    \/ \E i \in Slots : ExecuteTask(i)
          /\ UNCHANGED managerVars
    \/ \E i \in Slots : SendReturn(i)
          /\ UNCHANGED managerVars
    \/ \E i \in Slots : StreamFinish(i)
          /\ UNCHANGED managerVars

SpecRace == InitRace /\ [][NextRace]_vars

\* ------------------------------------- two tasks/send calls for two tasks
\* Two clients send to two task ids of one session, each its own text.  No
\* lock, queue or semaphore guards process_task: a request is accepted
\* whenever it arrives, and the requests interleave between the nodes of
\* the graph.
PairTargets == { <<"s1", "t1">>, <<"s1", "t2">> }

PairRid(k) == IF k[2] = "t1" THEN Some("r1") ELSE Some("r2")

PairSend(i, k) == TasksSend(i, PairRid(k), k[1], k[2], RaceParts(PairRid(k)))

NextPair ==
    \/ \E i \in Slots, k \in PairTargets : PairSend(i, k)
          /\ UNCHANGED managerVars
    \/ \E i \in Slots : ParseInput(i)
          /\ UNCHANGED managerVars
    \/ \E i \in Slots : HandleUnknownTask(i)
          /\ UNCHANGED managerVars
    \/ \E i \in Slots : RequestMissingParameters(i)
          /\ UNCHANGED managerVars
    \/ \E i \in Slots : ExecuteTask(i)
          /\ UNCHANGED managerVars
    \/ \E i \in Slots : SendReturn(i)
          /\ UNCHANGED managerVars

SpecPair == InitRace /\ [][NextPair]_vars

\* -------------------------------------- a further message for a known task
\* The store as one earlier tasks/send with UserText on a new (s1, t1) leaves
\* it, the time of that request taken as 0: either a completed currency
\* conversion (parse_input extracted all three parameters and execute_task's
\* tool succeeded), or a request whose task type stayed unknown (parse_input
\* extracted nothing and handle_unknown_task asked the user).  Further
\* tasks/send and tasks/sendSubscribe requests for the task follow, one at a
\* time.
CompletedConversion ==
    LET full == [kind |-> "dict",
                 obj |-> Params("currency_conversion", {"amount", "from_currency", "to_currency"})]
        accepted == add_user_message(AgentState(0), UserText, 0)
        parsed == parse_input(accepted, full, full, 0).st
    IN execute_task(parsed, "ok", 0).st

UnknownRequest ==
    LET empty == [kind |-> "dict", obj |-> EmptyParams]
        accepted == add_user_message(AgentState(0), UserText, 0)
        parsed == parse_input(accepted, empty, empty, 0).st
    IN handle_unknown_task(parsed, empty, 0).st

InitFollowUp ==
    /\ \E earlier \in {CompletedConversion, UnknownRequest} :
          sessions = (RaceTarget[1] :> (RaceTarget[2] :> earlier))
    /\ clock = 0
    /\ inflight = [i \in {1} |-> IdleSlot]
    /\ resp = NoResponse
    /\ lastGet = None
    /\ ManagerInit

SpecFollowUp == InitFollowUp /\ [][NextRace]_vars

TypeOK ==
    /\ clock \in 0..MaxClock
    /\ DOMAIN sessions \subseteq SessionIds
    /\ \A s \in DOMAIN sessions : DOMAIN sessions[s] \subseteq TaskIds
    /\ \A i \in Slots : inflight[i].kind \in {"idle", "send", "stream"}


\* ------------------------------------------------------------- properties
StoredTasks == { <<s, t>> \in SessionIds \X TaskIds : HasTask(sessions, s, t) }

\* the step just taken closed a tasks/sendSubscribe stream
StreamClosed == resp.method = "tasks/sendSubscribe" /\ resp.kind \in {"stream", "stream-aborted"}

IsFinalEvent(e) == e.result.final = Some(TRUE)

\* the step just taken returned a Task snapshot for method m
Returned_Task(m) == resp.method = m /\ resp.kind = "result"

\* C1: the events of a tasks/sendSubscribe stream whose adapter ran to its
\* terminal state are non-empty, exactly one of them has final == true, and
\* it is the last one.
C1_StreamEndsWithOneFinalEvent ==
    (StreamClosed /\ resp.data \notin {"adapter error", "user message invalid"}) =>
        /\ resp.events /= <<>>
        /\ IsFinalEvent(resp.events[Len(resp.events)])
        /\ Cardinality({k \in 1..Len(resp.events) : IsFinalEvent(resp.events[k])}) = 1

\* C2: a tasks/sendSubscribe stream that has started does not close before
\* it has emitted its final=true event (also when the adapter raises and
\* when building an event fails).
C2_NoCloseWithoutFinalEvent ==
    (StreamClosed /\ resp.events /= <<>>) => \E k \in 1..Len(resp.events) : IsFinalEvent(resp.events[k])

\* C3: a failure raised by the adapter during tasks/send is never answered
\* by a JSON-RPC error; the answer is a result, a Task in state failed.
C3_AdapterFailureIsFailedTask ==
    (resp.method = "tasks/send" /\ resp.data = "adapter error") =>
        /\ resp.kind = "result"
        /\ resp.result[1].status.state = "failed"

\* C4: a request whose envelope does not decode is answered by a JSON-RPC
\* error response with code -32603 and id null; no exception escapes.
C4_DecodeFailureAnswered ==
    resp.method = Undecodable =>
        /\ resp.kind = "error"
        /\ resp.code = InternalError
        /\ resp.id = None

\* C5: in every Task snapshot returned by tasks/send or tasks/get, artifacts
\* is non-null if and only if status.state is completed.
C5_ArtifactsIffCompleted ==
    (Returned_Task("tasks/send") \/ Returned_Task("tasks/get")) =>
        (resp.result[1].artifacts /= None <=> resp.result[1].status.state = "completed")

C5_Witness ==
    /\ Returned_Task("tasks/get")
    /\ resp.result[1].status.state = "completed"
    /\ resp.result[1].artifacts = Some(<< Artifact(CurrencyResult, None) >>)

\* C6: a tasks/get that directly follows a successful tasks/cancel of the same
\* (sessionId, id) succeeds and returns status.state == canceled.
C6_GetAfterCancelIsCanceled ==
    (resp.method = "tasks/get" /\ resp.afterCancel) =>
        /\ resp.kind = "result"
        /\ resp.result[1].status.state = "canceled"

\* the cancel hit a task that had completed
C6_Witness ==
    /\ Returned_Task("tasks/get") /\ resp.afterCancel
    /\ resp.result[1].status.state = "canceled"
    /\ sessions[resp.sid][resp.tid].final_response /= None

\* C7: every Task State of the store has final_response set if and only if
\* its lifecycle state is completed.
C7_FinalResponseIffCompleted ==
    \A k \in StoredTasks :
        sessions[k[1]][k[2]].final_response /= None
            <=> sessions[k[1]][k[2]].task_state = "completed"

\* C8: every Task State of the store whose error is set is in state failed.
C8_ErrorOnlyWhenFailed ==
    \A k \in StoredTasks :
        sessions[k[1]][k[2]].error /= None => sessions[k[1]][k[2]].task_state = "failed"

\* C9: the Task a tasks/send returns has the id of the request and one of
\* the six lifecycle states, and every Task State of the store has one of
\* the six lifecycle states.
C9_SixStates ==
    /\ Returned_Task("tasks/send") =>
          /\ resp.result[1].id = resp.tid
          /\ resp.result[1].status.state \in TaskStates
    /\ \A k \in StoredTasks : sessions[k[1]][k[2]].task_state \in TaskStates

C9_Witness ==
    /\ Returned_Task("tasks/send")
    /\ resp.result[1].id = "t1"
    /\ resp.result[1].status.state = "input-required"

\* C10: a tasks/get returns the same status.state and the same artifacts as
\* the tasks/get of the same (sessionId, id) before it, when no tasks/send,
\* tasks/sendSubscribe or tasks/cancel acted on that task in between.
C10_GetIsIdempotent ==
    (Returned_Task("tasks/get") /\ resp.prevGet /= None) =>
        /\ resp.prevGet[1].status.state = resp.result[1].status.state
        /\ resp.prevGet[1].artifacts = resp.result[1].artifacts

\* a second get of a task, after the store was written for another task
C10_Witness ==
    /\ Returned_Task("tasks/get") /\ resp.prevGet /= None
    /\ resp.prevGet[1].status.state = resp.result[1].status.state
    /\ clock > resp.result[1].status.timestamp

\* the (sessionId, id) that the step just taken operated on: the one its
\* response names, or the one of the request it left suspended
StepTarget ==
    IF resp /= NoResponse THEN <<resp.sid, resp.tid>>
    ELSE LET busy == {i \in Slots : inflight[i].kind /= "idle"}
         IN IF busy = {} THEN <<"", "">>
            ELSE LET i == CHOOSE i \in busy : TRUE
                 IN <<inflight[i].sid, inflight[i].tid>>

AllKeys == SessionIds \X TaskIds

TaskStateOf(sess, k) == sess[k[1]][k[2]]

\* C11: task ids are scoped to a session.  A step leaves every (session,
\* task) other than the one it operates on as it was: not stored stays not
\* stored, and a stored Task State stays the same, also when the same task
\* id is the one operated on in another session.  A tasks/get or
\* tasks/cancel of a (session, task) that is not stored reports not-found,
\* whichever other sessions hold that task id.
C11_SessionIsolation ==
    [][ /\ \A k \in AllKeys :
             k /= StepTarget' =>
                /\ HasTask(sessions', k[1], k[2]) <=> HasTask(sessions, k[1], k[2])
                /\ HasTask(sessions, k[1], k[2]) =>
                      TaskStateOf(sessions', k) = TaskStateOf(sessions, k)
        /\ (resp'.method \in {"tasks/get", "tasks/cancel"} /\ resp'.sid /= ""
               /\ ~HasTask(sessions, resp'.sid, resp'.tid)) =>
                /\ resp'.kind = "error"
                /\ resp'.data \in {"Session not found", "Task not found"}
      ]_vars

\* task t1 is stored under both sessions, the cancel of (s1, t1) has just
\* acted, and (s2, t1) is not canceled
C11_Witness ==
    /\ resp.method = "tasks/cancel" /\ resp.kind = "result"
    /\ resp.sid = "s1" /\ resp.tid = "t1"
    /\ HasTask(sessions, "s2", "t1")
    /\ sessions["s2"]["t1"].task_state = "working"
    /\ sessions["s1"]["t1"].task_state = "canceled"

\* the methods handle_jsonrpc routes
KnownMethods ==
    {"agent/getCard", "tasks/send", "tasks/sendSubscribe", "tasks/get", "tasks/cancel"}

\* the step just taken answered a decoded request for a method that is not
\* routed
UnroutedAnswered == resp.method \notin KnownMethods \cup {Undecodable, ""}

\* C12: a request whose method is none of the five routed ones is answered
\* by an error with code -32601 whose data is the method name, with no
\* result, and the step leaves the Session Store as it was.
C12_UnknownMethodNotFound ==
    [][ UnroutedAnswered' =>
           /\ resp'.kind = "error"
           /\ resp'.code = MethodNotFound
           /\ resp'.data = resp'.method
           /\ resp'.result = None
           /\ sessions' = sessions
      ]_vars

\* an unknown method answered while the store holds a task
C12_Witness ==
    /\ UnroutedAnswered
    /\ resp.code = MethodNotFound
    /\ resp.data = "tasks/list"
    /\ StoredTasks /= {}

\* the details of the HTTPException that get_task and cancel_task raise
NotFoundDetails == {"Session not found", "Task not found"}

\* C13: a tasks/get of a (sessionId, id) that the store does not hold (no
\* tasks/send or tasks/sendSubscribe has named it, see C11) is answered by a
\* not-found error and by no Task, and creates nothing.
C13_GetOfAbsentIsNotFound ==
    (resp.method = "tasks/get" /\ resp.sid /= ""
        /\ ~HasTask(sessions, resp.sid, resp.tid)) =>
        /\ resp.kind = "error"
        /\ resp.result = None
        /\ resp.data \in NotFoundDetails

\* the session exists, the task does not
C13_Witness ==
    /\ resp.method = "tasks/get" /\ resp.kind = "error"
    /\ resp.sid = "s1" /\ resp.tid = "t2"
    /\ HasTask(sessions, "s1", "t1")
    /\ resp.data = "Task not found"

\* C14: a not-found answer of tasks/get or tasks/cancel does not carry both
\* the error code and the HTTP status of the answer to an unexpected
\* failure (-32603 with HTTP 500).
C14_NotFoundDistinguishable ==
    (resp.method \in {"tasks/get", "tasks/cancel"} /\ resp.kind = "error"
        /\ resp.data \in NotFoundDetails) =>
        ~(resp.code = InternalError /\ resp.http = 500)

\* e is a well-formed event of a stream answering the request with id rid
WellFormedEvent(e, rid) ==
    /\ e.jsonrpc = "2.0"
    /\ e.id = rid
    /\ "result" \in DOMAIN e
    /\ "error" \notin DOMAIN e

FailureDescriptions ==
    NotFoundDetails \cup
    {"validation error", "adapter error", "artifact event invalid", "user message invalid"}

\* C16: a failure raised while a decoded request is handled, a
\* tasks/sendSubscribe stream being produced included, is answered by an
\* error response with code -32603 that carries the failure's description.
C16_FailureIsInternalError ==
    (resp.method \in KnownMethods /\ resp.data \in FailureDescriptions) =>
        /\ resp.kind = "error"
        /\ resp.code = InternalError
        /\ resp.jsonrpc = "2.0"

\* the step from st to st2 is the accept of a tasks/send or
\* tasks/sendSubscribe: it appended one user message
AcceptedMessage(st, st2) ==
    /\ Len(st2.messages) = Len(st.messages) + 1
    /\ st2.messages[Len(st2.messages)].role = "user"

\* C17: looking a stored (session, task) up through
\* get_or_create_task_state gives the store back as it is, and no step
\* replaces a stored Task State: it stays stored, its history only grows,
\* and the step that accepts a further message changes nothing of it but
\* the history and last_updated.
C17_LookupNeverReplaces ==
    [][ \A k \in AllKeys :
          HasTask(sessions, k[1], k[2]) =>
             LET st == TaskStateOf(sessions, k)
                 st2 == TaskStateOf(sessions', k)
             IN /\ get_or_create_task_state(sessions, k[1], k[2], clock + 1) = sessions
                /\ HasTask(sessions', k[1], k[2])
                /\ Len(st2.messages) >= Len(st.messages)
                /\ SubSeq(st2.messages, 1, Len(st.messages)) = st.messages
                /\ AcceptedMessage(st, st2) =>
                      [st2 EXCEPT !.messages = st.messages,
                                  !.last_updated = st.last_updated] = st
      ]_vars

\* a second message was accepted for a task that an earlier run had left
\* working: both messages are in its history
C17_Witness ==
    /\ HasTask(sessions, "s1", "t1")
    /\ Len(sessions["s1"]["t1"].messages) = 2
    /\ sessions["s1"]["t1"].messages[1].role = "user"
    /\ sessions["s1"]["t1"].messages[2].role = "user"
    /\ sessions["s1"]["t1"].intermediate_responses /= <<>>
    /\ \E i \in Slots : inflight[i].pc = "parse_input" /\ inflight[i].sid = "s1"

\* the history of (s, t) in store sess, empty when the pair is not stored
HistoryOf(sess, s, t) == IF HasTask(sess, s, t) THEN sess[s][t].messages ELSE <<>>

\* C18: with two requests for the same (sessionId, id) in the server at
\* once, the step that accepts a request appends that request's user
\* message to the one history of the pair (the empty history when the pair
\* is absent, creating the Task State then and only then), no step of either
\* request shortens or rewrites the history, and the message of every
\* request still suspended is in the history of the one Task State.
C18_RaceKeepsBothMessages ==
    [][ /\ \A i \in Slots :
              (inflight[i].kind = "idle" /\ inflight'[i].kind /= "idle") =>
                 LET r == inflight'[i]
                 IN /\ HasTask(sessions', r.sid, r.tid)
                    /\ HistoryOf(sessions', r.sid, r.tid) =
                          Append(HistoryOf(sessions, r.sid, r.tid),
                                 Message("user", RaceText(r.rid)))
        /\ LET old == HistoryOf(sessions, RaceTarget[1], RaceTarget[2])
                new == HistoryOf(sessions', RaceTarget[1], RaceTarget[2])
            IN Len(new) >= Len(old) /\ SubSeq(new, 1, Len(old)) = old
        /\ \A i \in Slots :
              inflight'[i].kind /= "idle" =>
                 \E k \in 1..Len(HistoryOf(sessions', inflight'[i].sid, inflight'[i].tid)) :
                    HistoryOf(sessions', inflight'[i].sid, inflight'[i].tid)[k] =
                       Message("user", RaceText(inflight'[i].rid))
      ]_vars

\* the second request was accepted after the first had run parse_input, and
\* both user messages are in the history
C18_Witness ==
    /\ inflight[1].kind = "send" /\ inflight[1].pc = "execute_task"
    /\ inflight[2].kind = "stream" /\ inflight[2].pc = "parse_input"
    /\ inflight[1].rid /= inflight[2].rid
    /\ Len(sessions["s1"]["t1"].messages) = 2
    /\ sessions["s1"]["t1"].messages[1] = Message("user", RaceText(inflight[1].rid))
    /\ sessions["s1"]["t1"].messages[2] = Message("user", RaceText(inflight[2].rid))

TerminalStates == {"completed", "failed", "canceled"}

\* the step just taken was a tasks/cancel
CancelStep == resp.method = "tasks/cancel"

\* C19: a tasks/send or tasks/sendSubscribe that found the Task State in
\* completed, failed or canceled when it was accepted leaves the lifecycle
\* state as it is: neither the accept nor any later step of that request
\* moves a Task State out of the terminal state it is in.
C19_TerminalStatesStay ==
    [][ \A i \in Slots :
          /\ (inflight[i].kind = "idle" /\ inflight'[i].kind /= "idle"
                 /\ inflight'[i].found \in TerminalStates) =>
                TaskStateOf(sessions', <<inflight'[i].sid, inflight'[i].tid>>).task_state
                   = inflight'[i].found
          /\ (inflight[i].kind /= "idle" /\ inflight'[i] /= inflight[i]
                 /\ inflight[i].found \in TerminalStates
                 /\ TaskStateOf(sessions, <<inflight[i].sid, inflight[i].tid>>).task_state
                       \in TerminalStates) =>
                TaskStateOf(sessions', <<inflight[i].sid, inflight[i].tid>>).task_state
                   = TaskStateOf(sessions, <<inflight[i].sid, inflight[i].tid>>).task_state
      ]_vars

\* the changes of lifecycle state the state machine allows a step to make
AllowedTransition(a, b, byCancel) ==
    \/ a = b
    \/ a = "created" /\ b = "working" /\ ~byCancel
    \/ a = "working" /\ b \in {"input-required", "completed", "failed"} /\ ~byCancel
    \/ a = "input-required" /\ b = "working" /\ ~byCancel
    \/ a \notin TerminalStates /\ b = "canceled" /\ byCancel

\* C20: a Task State is born created, and every step changes the lifecycle
\* state of a non-terminal Task State along the state machine only: created
\* to working, working to input-required, completed or failed,
\* input-required to working, and any of the three to canceled by
\* tasks/cancel and by nothing else.
C20_StateMachine ==
    [][ \A k \in AllKeys :
          /\ (~HasTask(sessions, k[1], k[2]) /\ HasTask(sessions', k[1], k[2])) =>
                TaskStateOf(sessions', k).task_state = "created"
          /\ (HasTask(sessions, k[1], k[2])
                 /\ TaskStateOf(sessions, k).task_state \notin TerminalStates) =>
                AllowedTransition(TaskStateOf(sessions, k).task_state,
                                  TaskStateOf(sessions', k).task_state, CancelStep')
      ]_vars

C22_GetIsReadOnly ==
    [][ resp'.method = "tasks/get" =>
           /\ sessions' = sessions
           /\ inflight' = inflight
           /\ clock' = clock
      ]_vars

\* a tasks/get answered from the store while a request is suspended in the
\* adapter
C22_Witness ==
    /\ Returned_Task("tasks/get")
    /\ resp.result[1].status.state = "working"
    /\ resp.result[1].status.timestamp = sessions[resp.sid][resp.tid].last_updated
    /\ \E i \in Slots : inflight[i].kind = "send" /\ inflight[i].pc = "execute_task"

\* C23: a tasks/cancel of a stored (sessionId, id) returns a canceled Task,
\* sets that Task State's lifecycle state to canceled and its last_updated
\* to the current, later time, and changes no other field of it, no other
\* Task State and no run of the adapter; a tasks/cancel of an absent session
\* or task is answered not-found and changes nothing.
C23_CancelFrame ==
    [][ (resp'.method = "tasks/cancel" /\ resp'.sid /= "") =>
           LET k == <<resp'.sid, resp'.tid>>
           IN /\ inflight' = inflight
              /\ IF HasTask(sessions, k[1], k[2])
                 THEN /\ resp'.kind = "result"
                      /\ resp'.result[1].status.state = "canceled"
                      /\ HasTask(sessions', k[1], k[2])
                      /\ TaskStateOf(sessions', k).last_updated
                            > TaskStateOf(sessions, k).last_updated
                      /\ TaskStateOf(sessions', k) =
                            [TaskStateOf(sessions, k) EXCEPT
                                !.task_state = "canceled",
                                !.last_updated = TaskStateOf(sessions', k).last_updated]
                      /\ sessions' = PutTask(sessions, k[1], k[2], TaskStateOf(sessions', k))
                 ELSE /\ resp'.kind = "error"
                      /\ resp'.data \in NotFoundDetails
                      /\ sessions' = sessions
      ]_vars

\* the cancel of a task in input-required: its history and parameters stay
C23_Witness ==
    /\ resp.method = "tasks/cancel" /\ resp.kind = "result"
    /\ sessions[resp.sid][resp.tid].task_state = "canceled"
    /\ sessions[resp.sid][resp.tid].last_updated = clock
    /\ Len(sessions[resp.sid][resp.tid].messages) = 2
    /\ sessions[resp.sid][resp.tid].messages[2].role = "assistant"
    /\ "task_type" \in DOMAIN sessions[resp.sid][resp.tid].parameters

IsArtifactEvent(e) == e.result.artifact /= None

IsInitialEvent(e) ==
    /\ ~IsArtifactEvent(e)
    /\ e.result.status.state = "working"
    /\ e.result.final = Some(FALSE)
    /\ e.result.status.message = Some(ProcessingMessage)

\* a working event for an intermediate response
IsWorkingEvent(e) ==
    /\ ~IsArtifactEvent(e)
    /\ e.result.status.state = "working"
    /\ e.result.final = Some(FALSE)
    /\ e.result.status.message /= None
    /\ e.result.status.message /= Some(ProcessingMessage)

\* the place of an event in the order of a stream
EventRank(e) ==
    IF IsInitialEvent(e) THEN 0
    ELSE IF IsWorkingEvent(e) THEN 1
    ELSE IF IsArtifactEvent(e) THEN 2
    ELSE IF IsFinalEvent(e) THEN 3
    ELSE 4

\* evs is a stream in order, as far as it has got
OrderedStream(evs) ==
    /\ \A k \in 1..Len(evs) : EventRank(evs[k]) = 0 <=> k = 1
    /\ \A k \in 1..Len(evs) : EventRank(evs[k]) \in 0..3
    /\ \A j, k \in 1..Len(evs) : j < k => EventRank(evs[j]) <= EventRank(evs[k])
    /\ Cardinality({k \in 1..Len(evs) : EventRank(evs[k]) = 2}) <= 1
    /\ Cardinality({k \in 1..Len(evs) : EventRank(evs[k]) = 3}) <= 1

\* C24: the events a tasks/sendSubscribe stream has emitted are in order:
\* the one initial working event with the processing message first, and
\* alone before the adapter runs; then working events of intermediate
\* responses; then at most one artifact event; then the closing final=true
\* event, last when the stream has run to its end.  No working event
\* follows an artifact event.
C24_StreamOrder ==
    /\ \A i \in Slots :
          inflight[i].kind = "stream" =>
             /\ OrderedStream(inflight[i].events)
             /\ inflight[i].events /= <<>>
             /\ inflight[i].pc = "parse_input" => Len(inflight[i].events) = 1
             /\ \A k \in 1..Len(inflight[i].events) : EventRank(inflight[i].events[k]) <= 1
    /\ StreamClosed =>
          /\ OrderedStream(resp.events)
          /\ resp.kind = "stream" =>
                /\ resp.events /= <<>>
                /\ EventRank(resp.events[Len(resp.events)]) = 3

\* a stream that closed with the initial event, two working events and the
\* closing event
C24_Witness ==
    /\ StreamClosed /\ resp.kind = "stream"
    /\ Len(resp.events) = 4
    /\ EventRank(resp.events[1]) = 0
    /\ EventRank(resp.events[2]) = 1
    /\ EventRank(resp.events[3]) = 1
    /\ EventRank(resp.events[4]) = 3

\* the texts that the working events of evs carry, the initial event left out
WorkingTexts(evs) == [k \in 1..(Len(evs) - 1) |-> evs[k + 1].result.status.message]

\* C25: a stream whose request found the Task State new (created, with no
\* intermediate response yet) has emitted, after its initial event, one
\* working event for each intermediate response the task has, in the order
\* of the responses: none skipped, none emitted twice.
C25_OneEventPerIntermediateResponse ==
    \A i \in Slots :
       (inflight[i].kind = "stream" /\ inflight[i].found = "created") =>
          LET irs == TaskStateOf(sessions, <<inflight[i].sid, inflight[i].tid>>).intermediate_responses
          IN WorkingTexts(inflight[i].events) = [k \in 1..Len(irs) |-> Some(irs[k])]

\* the step just taken closed a stream whose adapter run had come to its
\* end: the stream got as far as the code after the loop over astream
StreamRanToItsEnd ==
    StreamClosed /\ resp.data \notin {"adapter error", "user message invalid"}

\* C26: a stream whose adapter run has ended holds an artifact event if and
\* only if the Task State is completed; there is then exactly one, directly
\* before the closing event, carrying the final response in the artifact
\* field with index 0 and append false.
C26_ArtifactEventIffCompleted ==
    StreamRanToItsEnd =>
        LET st == TaskStateOf(sessions, <<resp.sid, resp.tid>>)
            arts == {k \in 1..Len(resp.events) : IsArtifactEvent(resp.events[k])}
        IN IF st.task_state = "completed"
           THEN /\ arts = {Len(resp.events) - 1}
                /\ IsFinalEvent(resp.events[Len(resp.events)])
                /\ resp.events[Len(resp.events) - 1].result.artifact =
                      Some(Artifact(st.final_response[1], Some(FALSE)))
                /\ resp.events[Len(resp.events) - 1].result.artifacts = None
           ELSE arts = {}

\* the step being taken is the end of the stream in slot i, and the stream
\* runs as far as its closing event
StreamCloses(i) ==
    /\ inflight[i].kind = "stream" /\ inflight[i].pc = "END"
    /\ inflight'[i].kind = "idle"
    /\ resp'.kind = "stream"

ClosingEvent(r) == r.events[Len(r.events)].result

SendHandled ==
    \/ \E i \in Slots : inflight[i].kind = "idle" /\ inflight'[i].kind = "send"
    \/ /\ resp'.method = "tasks/send" /\ resp'.sid /= ""
       /\ inflight' = inflight

\* C28: a tasks/send whose params validate appends exactly one user message
\* to the end of the task's history, leaving the earlier messages as they
\* were and in their order, and starts one run of the adapter, at
\* parse_input; it is not answered by an error at that point.
C28_SendAppendsOneUserMessage ==
    [][ SendHandled =>
           LET old == HistoryOf(sessions, StepTarget'[1], StepTarget'[2])
               new == HistoryOf(sessions', StepTarget'[1], StepTarget'[2])
           IN /\ Len(new) = Len(old) + 1
              /\ SubSeq(new, 1, Len(old)) = old
              /\ new[Len(new)].role = "user"
              /\ resp' = NoResponse
              /\ \E i \in Slots :
                    /\ inflight[i].kind = "idle"
                    /\ inflight'[i].kind = "send"
                    /\ inflight'[i].pc = "parse_input"
      ]_vars

\* C29: in a Task returned by tasks/send or tasks/get, status.message is
\* present only when status.state is input-required, and whenever the state
\* is input-required it is present and carries the text of the last
\* assistant message of the task's history.
C29_MessageIffInputRequired ==
    (Returned_Task("tasks/send") \/ Returned_Task("tasks/get")) =>
        LET task == resp.result[1]
            st == TaskStateOf(sessions, <<resp.sid, resp.tid>>)
        IN /\ task.status.message /= None => task.status.state = "input-required"
           /\ task.status.state = "input-required" =>
                 /\ task.status.message /= None
                 /\ task.status.message = get_last_assistant_message(st)

\* C30: a tasks/get handled directly after a tasks/send of the same
\* (sessionId, id) has returned its Task succeeds and returns the same
\* status.state, the same artifacts and the same status.message as that
\* tasks/send returned.
C30_GetShapesAsSend ==
    (resp.method = "tasks/get" /\ resp.prevSend /= None) =>
        /\ resp.kind = "result"
        /\ resp.result[1].status.state = resp.prevSend[1].status.state
        /\ resp.result[1].artifacts = resp.prevSend[1].artifacts
        /\ resp.result[1].status.message = resp.prevSend[1].status.message

\* the tasks/send had returned input-required with the agent's question
C30_Witness ==
    /\ Returned_Task("tasks/get") /\ resp.prevSend /= None
    /\ resp.prevSend[1].status.state = "input-required"
    /\ resp.prevSend[1].status.message /= None
    /\ resp.result[1].status.message = resp.prevSend[1].status.message
    /\ resp.result[1].status.timestamp < resp.prevSend[1].status.timestamp

\* the states in which a run of the graph may hand a Task State back
SettledStates == {"completed", "failed", "input-required"}

\* a request whose run of the graph has reached END without raising
RunEnded(i) == inflight[i].kind \in {"send", "stream"} /\ inflight[i].pc = "END"

\* C31: a run of the agent graph, entered at parse_input and ended at END,
\* returns the Task State in completed, failed or input-required, never in
\* created or working, whatever the parameter-extraction and task-type steps
\* gave.
C31_RunEndsSettled ==
    \A i \in Slots : RunEnded(i) => inflight[i].yielded \in SettledStates

\* the (sessionId, id) of the request that slot i holds before or after a step
SlotTarget(i) ==
    IF inflight[i].kind /= "idle" THEN <<inflight[i].sid, inflight[i].tid>>
    ELSE <<inflight'[i].sid, inflight'[i].tid>>

\* a tasks/send for task k can be accepted now, and every suspended
\* tasks/send can take its next step now, whatever else is suspended
NothingBlocked ==
    /\ \A k \in PairTargets :
          (clock < MaxClock /\ \E i \in Slots : inflight[i].kind = "idle") =>
             ENABLED (\E i \in Slots : PairSend(i, k))
    /\ \A i \in Slots :
          /\ (clock < MaxClock /\ inflight[i].pc = "parse_input") => ENABLED ParseInput(i)
          /\ (clock < MaxClock /\ inflight[i].pc = "handle_unknown_task") =>
                ENABLED HandleUnknownTask(i)
          /\ (clock < MaxClock /\ inflight[i].pc = "request_missing_parameters") =>
                ENABLED RequestMissingParameters(i)
          /\ (clock < MaxClock /\ inflight[i].pc = "execute_task") => ENABLED ExecuteTask(i)
          /\ (inflight[i].kind = "send" /\ inflight[i].pc = "END") => ENABLED SendReturn(i)

\* C32: tasks/send calls for different task ids do not block one another.
\* While a call is suspended in the graph, a call for another task id can be
\* accepted, can run each of its nodes and can return; every step of a call
\* leaves the Task State of every other task as it was, and the Task a call
\* returns is the shaping of its own task's Task State.
C32_SendsDoNotInterfere ==
    /\ []NothingBlocked
    /\ [][ /\ \A i \in Slots, k \in AllKeys :
                 (inflight'[i] /= inflight[i] /\ k /= SlotTarget(i)) =>
                    /\ HasTask(sessions', k[1], k[2]) <=> HasTask(sessions, k[1], k[2])
                    /\ HasTask(sessions, k[1], k[2]) =>
                          TaskStateOf(sessions', k) = TaskStateOf(sessions, k)
           /\ (resp'.method = "tasks/send" /\ resp'.kind = "result") =>
                 /\ resp'.result[1].id = resp'.tid
                 /\ resp'.result[1].status.state =
                       sessions[resp'.sid][resp'.tid].task_state
                 /\ resp'.result[1].artifacts =
                       ShapeArtifacts(sessions[resp'.sid][resp'.tid])
         ]_vars

\* the call for t1, accepted first, has not taken a step yet, and the call
\* for t2 was accepted, ran two nodes and has just returned completed
C32_Witness ==
    /\ inflight[1].kind = "send" /\ inflight[1].tid = "t1" /\ inflight[1].pc = "parse_input"
    /\ sessions["s1"]["t1"].last_updated = 1
    /\ sessions["s1"]["t1"].task_state = "created"
    /\ resp.method = "tasks/send" /\ resp.kind = "result" /\ resp.tid = "t2"
    /\ resp.result[1].status.state = "completed"
    /\ clock = 4

\* C33: Session Store entries are never removed.  A stored session stays
\* stored and a stored (sessionId, taskId) stays stored over every step; a
\* tasks/get succeeds only for a stored pair and reports not-found only for
\* one that is not stored, so after a tasks/get of a task has succeeded no
\* later tasks/get of it reports not-found.
C33_EntriesStay ==
    [][ /\ DOMAIN sessions \subseteq DOMAIN sessions'
        /\ \A s \in DOMAIN sessions : DOMAIN sessions[s] \subseteq DOMAIN sessions'[s]
        /\ (resp'.method = "tasks/get" /\ resp'.sid /= "") =>
              /\ resp'.kind = "result" => HasTask(sessions', resp'.sid, resp'.tid)
              /\ HasTask(sessions, resp'.sid, resp'.tid) =>
                    ~(resp'.kind = "error" /\ resp'.data \in NotFoundDetails)
      ]_vars

\* a tasks/get of (s1, t1) succeeds again, after an earlier one succeeded,
\* with both sessions stored and the task canceled in between or before
C33_Witness ==
    /\ resp.method = "tasks/get" /\ resp.kind = "result"
    /\ resp.sid = "s1" /\ resp.tid = "t1"
    /\ resp.prevGet /= None
    /\ resp.result[1].status.state = "canceled"
    /\ DOMAIN sessions = {"s1", "s2"}

\* the step accepts a tasks/send or tasks/sendSubscribe whose params
\* validated: it leaves the request suspended in the graph, or fails at once
\* on the user message
AcceptsSend ==
    \/ \E i \in Slots : inflight[i].kind = "idle" /\ inflight'[i].kind /= "idle"
    \/ /\ resp'.method \in {"tasks/send", "tasks/sendSubscribe"}
       /\ resp'.sid /= ""
       /\ inflight' = inflight

\* the step answers a request that is not a tasks/send or tasks/sendSubscribe
\* with valid params
AnswersOtherRequest ==
    \/ resp'.method \in {"tasks/get", "tasks/cancel", "agent/getCard", Undecodable}
    \/ resp'.method \in UnknownMethods
    \/ resp'.method \in InvalidParamsMethods /\ resp'.kind = "error" /\ resp'.sid = ""

SameEntries ==
    /\ DOMAIN sessions' = DOMAIN sessions
    /\ \A s \in DOMAIN sessions : DOMAIN sessions'[s] = DOMAIN sessions[s]

\* C34: only a tasks/send or tasks/sendSubscribe whose params validate
\* creates Session Store entries.  A step that changes the set of sessions
\* or of tasks accepts such a request, and it adds nothing but the session
\* and task the request names; tasks/get, tasks/cancel, agent/getCard,
\* unknown methods, undecodable requests and requests whose params fail
\* validation leave the sets as they were.
C34_OnlySendCreates ==
    [][ /\ ~SameEntries =>
              /\ AcceptsSend
              /\ \A k \in AllKeys :
                    (HasTask(sessions', k[1], k[2]) /\ ~HasTask(sessions, k[1], k[2])) =>
                       k = StepTarget'
        /\ AnswersOtherRequest => SameEntries
      ]_vars

\* a tasks/get of a task in a session never named before was answered with
\* an error, another session is stored, and the session was not created
C34_Witness ==
    /\ resp.method = "tasks/get" /\ resp.kind = "error"
    /\ resp.data = "Session not found"
    /\ resp.sid = "s2"
    /\ DOMAIN sessions = {"s1"}
    /\ HasTask(sessions, "s1", "t1")

\* the request in slot i is suspended and a tasks/cancel of its task was
\* handled since it was accepted or since its last node returned: the stored
\* state is canceled and neither the request found it so nor a node left it so
CanceledWhileSuspended(i) ==
    /\ inflight[i].kind \in {"send", "stream"}
    /\ sessions[inflight[i].sid][inflight[i].tid].task_state = "canceled"
    /\ IF inflight[i].yielded = "" THEN inflight[i].found /= "canceled"
       ELSE inflight[i].yielded /= "canceled"

\* C35: a tasks/cancel handled while a tasks/send or tasks/sendSubscribe of
\* the same task is suspended in the graph is not lost.  No later step of
\* the suspended request takes the Task State out of canceled, and a
\* tasks/send that returns then returns canceled.
C35_CancelSurvivesRun ==
    [][ \A i \in Slots :
          (CanceledWhileSuspended(i) /\ inflight'[i] /= inflight[i]) =>
             /\ sessions'[inflight[i].sid][inflight[i].tid].task_state = "canceled"
             /\ (resp'.method = "tasks/send" /\ resp'.kind = "result") =>
                   resp'.result[1].status.state = "canceled"
      ]_vars

\* the texts that the run of the request in slot i has appended to the
\* intermediate-response log of its task
OwnResponses(i) ==
    LET log == sessions[inflight[i].sid][inflight[i].tid].intermediate_responses
    IN { log[j] : j \in (inflight[i].logged + 1)..Len(log) }

\* C36: a working event of a tasks/sendSubscribe stream never carries an
\* intermediate response of an earlier request on the same task: the text
\* of every event after the initial one was appended to the log during this
\* stream's own run of the graph.
C36_EventsAreOwnResponses ==
    \A i \in Slots :
       inflight[i].kind = "stream" =>
          \A k \in 2..Len(inflight[i].events) :
             \E text \in OwnResponses(i) :
                inflight[i].events[k].result.status.message = Some(text)

\* parse_input recorded an error in the run of the request in slot i: the
\* snapshot it returned is failed (it sets working otherwise)
ParseInputFailed(i) == inflight[i].yielded = "failed"

\* C37: execute_task runs only on a Task State whose parameters hold a
\* recognised task_type and all its required parameters, and never in a run
\* whose parse_input recorded an error; a Task State becomes completed only
\* with complete parameters.
C37_ExecuteOnlyWhenComplete ==
    [][ /\ \A i \in Slots :
              (inflight'[i].kind /= "idle" /\ inflight'[i].pc = "execute_task") =>
                 /\ check_parameters(sessions'[inflight'[i].sid][inflight'[i].tid])
                       = "complete_parameters"
                 /\ ~ParseInputFailed(i)'
        /\ \A k \in AllKeys :
              (/\ HasTask(sessions, k[1], k[2])
               /\ TaskStateOf(sessions, k).task_state /= "completed"
               /\ TaskStateOf(sessions', k).task_state = "completed") =>
                 check_parameters(TaskStateOf(sessions', k)) = "complete_parameters"
      ]_vars

\* the events that call c has appended, in the order of the event list
EventsOf(c) == SelectSeq(manager.events, LAMBDA e : e.id[2] = c)

\* how often the message id of call c is in the pending list
PendingCount(c) ==
    Cardinality({j \in 1..Len(manager.pending_message_ids) :
                    manager.pending_message_ids[j] = MessageId(c)})

IsIncomingEvent(e, c) ==
    /\ e.actor = "host"
    /\ e.content.queue = 0
    /\ e.content.message[1].metadata[1].message_id = MessageId(c)

IsResponseEvent(e) ==
    /\ e.actor = "host"
    /\ e.content.message = None
    /\ e.content.queue \in 1..QueueLen

\* C38: in InMemoryFakeAgentManager a message id is in the pending list
\* exactly while its process_message call is between its start and its end,
\* under every interleaving of the calls: once no call is running the
\* pending list is empty, and a finished call has appended exactly two
\* events, the incoming message and then a response (a running call one, a
\* call not begun none).
C38_PendingWhileRunning ==
    /\ \A c \in CallIds :
          /\ calls[c].pc \in {"new", "sleeping", "done"}
          /\ PendingCount(c) = IF calls[c].pc = "sleeping" THEN 1 ELSE 0
          /\ calls[c].pc = "new" => EventsOf(c) = <<>>
          /\ calls[c].pc = "sleeping" =>
                /\ Len(EventsOf(c)) = 1
                /\ IsIncomingEvent(EventsOf(c)[1], c)
          /\ calls[c].pc = "done" =>
                /\ Len(EventsOf(c)) = 2
                /\ IsIncomingEvent(EventsOf(c)[1], c)
                /\ IsResponseEvent(EventsOf(c)[2])
    /\ Len(manager.pending_message_ids) =
          Cardinality({c \in CallIds : calls[c].pc = "sleeping"})
    /\ (\A c \in CallIds : calls[c].pc /= "sleeping") => manager.pending_message_ids = <<>>

\* the second call ended while the first, begun before it, is still
\* sleeping: only the first call's message id is pending
C38_Witness ==
    /\ calls[1].pc = "sleeping" /\ calls[2].pc = "done" /\ calls[3].pc = "new"
    /\ manager.pending_message_ids = << MessageId(1) >>
    /\ Len(manager.events) = 3
    /\ manager.events[3].id = EventId(2, 2)

\* the call that made the task
CallOfTask(task) == CHOOSE c \in CallIds : TaskId(c) = task.id

\* the queue positions of the responses handed out so far, in their order
ResponsePositions ==
    LET out == SelectSeq(manager.events, LAMBDA e : e.content.queue /= 0)
    IN [j \in 1..Len(out) |-> out[j].content.queue]

\* every task was added by a call that is running or has finished; it is
\* submitted without artifacts while the call runs, and completed with one
\* artifact named "response" holding the parts of the call's response once
\* the call has finished
TasksFollowCalls ==
    \A j \in 1..Len(manager.tasks) :
       LET task == manager.tasks[j]
           c == CallOfTask(task)
       IN /\ \E d \in CallIds : TaskId(d) = task.id
          /\ \A k \in 1..Len(manager.tasks) : manager.tasks[k].id = task.id => k = j
          /\ calls[c].pc \in {"sleeping", "done"}
          /\ calls[c].pc = "sleeping" =>
                task.status.state = "submitted" /\ task.artifacts = None
          /\ calls[c].pc = "done" =>
                /\ task.status.state = "completed"
                /\ task.artifacts =
                      Some(<< UiArtifact("response", QueueParts[EventsOf(c)[2].content.queue]) >>)

\* the responses come in the order of the queue, beginning again after its
\* last message, and the index points at the message that is next
RoundRobin ==
    /\ manager.next_message_idx \in 0..(QueueLen - 1)
    /\ manager.next_message_idx = Len(ResponsePositions) % QueueLen
    /\ \A j \in 1..Len(ResponsePositions) : ResponsePositions[j] = ((j - 1) % QueueLen) + 1

\* C39: in InMemoryFakeAgentManager every Task that process_message added
\* is COMPLETED with exactly one artifact holding the response's parts once
\* that call has finished, under every interleaving of the calls; a call
\* adds a Task exactly when the index of the canned responses is not zero
\* at its start; next_message hands the canned responses out in round-robin
\* order and its index stays within the bounds of the queue.
C39_TasksCompletedRoundRobin ==
    /\ [](TasksFollowCalls /\ RoundRobin)
    /\ [][ \A c \in CallIds :
              (calls[c].pc = "new" /\ calls'[c].pc = "sleeping") =>
                 IF manager.next_message_idx /= 0
                 THEN /\ Len(manager'.tasks) = Len(manager.tasks) + 1
                      /\ manager'.tasks[Len(manager'.tasks)].id = TaskId(c)
                 ELSE manager'.tasks = manager.tasks
         ]_vars

\* five calls have finished, the fifth got the first canned response again,
\* the third ended before the second, and a task is completed with the
\* parts of its call's response
C39_Witness ==
    /\ \A c \in 1..5 : calls[c].pc = "done"
    /\ manager.next_message_idx = 1
    /\ ResponsePositions = << 1, 2, 3, 4, 1 >>
    /\ EventsOf(3)[2].content.queue = 2
    /\ \E j \in 1..Len(manager.tasks) :
          /\ manager.tasks[j].id = TaskId(3)
          /\ manager.tasks[j].status.state = "completed"
          /\ manager.tasks[j].artifacts = Some(<< UiArtifact("response", "form") >>)
====
